---- MODULE Spec2Model ----
(***************************************************************************)
(* FlashFS: a minimal file table over a page-erasable flash region.        *)
(* src/FlashFS.js holds two variants of the module: the 16-byte-name       *)
(* variant (lines 1-415, absolute addresses, page-aligned content) and the *)
(* 32-byte-name variant (lines 417-837, region-relative addresses, packed  *)
(* content).  The variable "variant" selects which one a behaviour runs.   *)
(*                                                                         *)
(* Strings and byte arrays are sequences of character codes / bytes.       *)
(* The comparison of a byte array read from flash with an array literal    *)
(* (check, list) is modelled as Espruino evaluates it for the module to    *)
(* work at all (README.md lines 30-38): equality of contents.              *)
(***************************************************************************)
EXTENDS Integers, Sequences, FiniteSets, TLC

VARIABLES
    variant,       \* 16 or 32: the variant of the module that is loaded
    flash_addr,    \* params.flash_addr
    flash_length,  \* params.flash_length
    flash,         \* the storage device: page -> (programmed offset -> byte)
    handles,       \* the FileFS objects the caller holds, in order of creation
    timers,        \* the pipes started by pipe(): one interval timer each
    ret            \* the last call: its arguments and its outcome

vars == <<variant, flash_addr, flash_length, flash, handles, timers, ret>>

(***************************************************************************)
(* params (src/FlashFS.js 11-27 and 427-443)                               *)
(***************************************************************************)
PAGE_SIZE == 4096
FILE_NAME_LENGTH == 16
FILE_NAME_LENGTH32 == 32
FILE_SIZE_LENGTH == 4
FILE_ADDR_LENGTH == 4
BOF_LENGTH == 1
EOF_LENGTH == 1
HEADER_BYTE == <<56, 46, 53>>
HEADER_BYTES == <<70, 83>>
BOF_BYTE == 250
EOF_BYTE == 251

(***************************************************************************)
(* Bounds of the model                                                     *)
(***************************************************************************)
\* pages of the regions the constructor is given
RegionPages == 4
\* handles a behaviour of Spec holds
MaxHandles == 2
\* accepted write and skip calls per handle
MaxWrites == 2
\* accepted readBytes calls per handle
MaxReads == 2
\* handles a behaviour of SpecNames holds
MaxOpens == 3
\* handles a behaviour of SpecSeq holds
SeqHandles == 3
\* files a behaviour of SpecAlloc creates
AllocFiles == 2
\* handles a behaviour of SpecRead holds
ReadHandles == 2
\* handles a behaviour of SpecOpen holds
OpenHandles == 2
\* handles a behaviour of SpecCrash holds
CrashHandles == 2
\* handles a behaviour of SpecShared holds
SharedHandles == 2
\* handles a behaviour of SpecErr holds
ErrHandles == 2
\* bytes of content area in the region of SpecErr
ErrTail == 4
\* handles a behaviour of SpecPipe holds
PipeHandles == 2
\* pipes a behaviour of SpecPipe starts
MaxPipes == 1
\* accepted write calls per handle in SpecPipe
PipeWrites == 1
\* readBytes calls of the caller per handle in SpecPipe
PipeReads == 1
\* write calls of a failing destination that raise
MaxRaises == 1
\* handles a behaviour of SpecTwoPipes holds
TwoHandles == 4
\* pipes a behaviour of SpecTwoPipes starts
TwoPipes == 2
\* accepted write calls per handle in SpecTwoPipes
TwoWrites == 1
\* pages of the region of the directory-capacity specification
CapPages == 160
\* openFile calls of the directory-capacity specification
CapFiles == 165

(***************************************************************************)
(* Host string helpers                                                     *)
(***************************************************************************)
\* String.prototype.toLowerCase on character codes below 256: A-Z, and the
\* Latin-1 capitals 192..214 and 216..222, become the code 32 above
toLowerCase(s) ==
    [i \in 1..Len(s) |->
        IF s[i] \in (65..90) \cup (192..214) \cup (216..222) THEN s[i] + 32 ELSE s[i]]

\* the characters String.prototype.trim strips
IsWhite(c) == c \in {9, 10, 11, 12, 13, 32, 160}

RECURSIVE trimStart(_)
trimStart(s) == IF Len(s) > 0 /\ IsWhite(s[1]) THEN trimStart(Tail(s)) ELSE s

RECURSIVE trimEnd(_)
trimEnd(s) ==
    IF Len(s) > 0 /\ IsWhite(s[Len(s)]) THEN trimEnd(SubSeq(s, 1, Len(s) - 1)) ELSE s

\* String.prototype.trim
trim(s) == trimEnd(trimStart(s))

\* String.prototype.padEnd(n, " ")
padEnd(s, n) == IF Len(s) >= n THEN s ELSE s \o [i \in 1..(n - Len(s)) |-> 32]

(***************************************************************************)
(* Bind(v, F) is F(v) with v evaluated once.                               *)
(***************************************************************************)
Bind(v, F(_)) == CHOOSE r \in {F(x) : x \in {v}} : TRUE

(***************************************************************************)
(* Storage device (external): flash maps the number of every page that     *)
(* holds programmed bytes to the programmed offsets of that page and their *)
(* bytes; a byte that is not recorded is erased and reads 255.             *)
(***************************************************************************)
RECURSIVE BitAnd(_, _)
BitAnd(a, b) ==
    IF a = 0 \/ b = 0 THEN 0
    ELSE IF a = 255 THEN b
    ELSE IF b = 255 THEN a
    ELSE (IF a % 2 = 1 /\ b % 2 = 1 THEN 1 ELSE 0) + 2 * BitAnd(a \div 2, b \div 2)

\* the byte the device holds at address
byteAt(fl, address) ==
    LET p == address \div PAGE_SIZE
        o == address % PAGE_SIZE
    IN  IF p \in DOMAIN fl /\ o \in DOMAIN fl[p] THEN fl[p][o] ELSE 255

\* flash.read(length, address)
flashRead(fl, length, address) ==
    Bind(<<fl, address>>, LAMBDA v : [i \in 1..length |-> byteAt(v[1], v[2] + i - 1)])

\* one page after programming data[from..] at its offsets lo..hi
pageWrite(old, data, from, lo, hi) ==
    [o \in DOMAIN old \cup (lo..hi) |->
        IF o >= lo /\ o <= hi
        THEN BitAnd(IF o \in DOMAIN old THEN old[o] ELSE 255, data[from + o - lo] % 256)
        ELSE old[o]]

\* flash.write(data, address): programming only clears bits
flashWrite(fl, data, address) ==
    Bind(<<fl, data, address, address + Len(data) - 1>>, LAMBDA v :
        [p \in DOMAIN v[1] \cup {q \in (v[3] \div PAGE_SIZE)..(v[4] \div PAGE_SIZE) : v[4] >= v[3]} |->
            IF v[4] >= v[3] /\ p >= v[3] \div PAGE_SIZE /\ p <= v[4] \div PAGE_SIZE
            THEN Bind(IF p * PAGE_SIZE > v[3] THEN p * PAGE_SIZE ELSE v[3], LAMBDA first :
                    pageWrite(IF p \in DOMAIN v[1] THEN v[1][p] ELSE <<>>,
                              v[2], first - v[3] + 1, first % PAGE_SIZE,
                              IF v[4] \div PAGE_SIZE > p THEN PAGE_SIZE - 1
                                                         ELSE v[4] % PAGE_SIZE))
            ELSE v[1][p]])

\* flash.erasePage(address) for every address of pages: these pages read 255 again
erasePages(fl, pages) ==
    Bind(<<fl, pages>>, LAMBDA v : [p \in DOMAIN v[1] \ v[2] |-> v[1][p]])

(***************************************************************************)
(* b4u32 / u32b4 (32-bit two's complement, as the JS bit operators give)   *)
(***************************************************************************)
BytesOf(n) ==
    << (n \div 16777216) % 256, (n \div 65536) % 256, (n \div 256) % 256, n % 256 >>

ValueOf(arr) == arr[4] + arr[3] * 256 + arr[2] * 65536 + arr[1] * 16777216

\* (arr[3]) | (arr[2] << 8) | (arr[1] << 16) | (arr[0] << 24): a signed int32
b4u32(arr) ==
    Bind(arr, LAMBDA v :
        IF v[1] >= 128
        THEN -ValueOf([i \in 1..4 |-> 255 - v[i]]) - 1
        ELSE ValueOf(v))

\* [(n >> 24) & 0xFF, (n >> 16) & 0xFF, (n >> 8) & 0xFF, n & 0xFF]
u32b4(number) ==
    IF number >= 0
    THEN BytesOf(number)
    ELSE [i \in 1..4 |-> 255 - BytesOf(-number - 1)[i]]

(***************************************************************************)
(* check / prepare / format                                                *)
(***************************************************************************)
Header == IF variant = 16 THEN HEADER_BYTE ELSE HEADER_BYTES

NameLength == IF variant = 16 THEN FILE_NAME_LENGTH ELSE FILE_NAME_LENGTH32

check(fl) == flashRead(fl, Len(Header), flash_addr) = Header

prepare(fl) == flashWrite(fl, Header, flash_addr)

\* the pages the loop of format erases: those of flash_addr, flash_addr +
\* PAGE_SIZE, ... below flash_addr + flash_length
formatPages ==
    {(flash_addr + i * PAGE_SIZE) \div PAGE_SIZE :
        i \in {j \in 0..(flash_length \div PAGE_SIZE) : j * PAGE_SIZE < flash_length}}

\* (variant of format that erases no page)
formatNoErase(fl) == prepare(fl)

format(fl) == prepare(erasePages(fl, formatPages))

(***************************************************************************)
(* list: the directory scan.  The result is [err, ls]; err is the error    *)
(* kind thrown, "none" when ls is returned.  Every iteration of the while  *)
(* loop advances pos by the width of an entry, so iteration k (from 0)     *)
(* reads the entry at start + k * width: it ends the scan if the BOF byte  *)
(* is missing and throws if the EOF byte is.                               *)
(***************************************************************************)
EntryWidth(nameLength) ==
    BOF_LENGTH + nameLength + FILE_SIZE_LENGTH + FILE_ADDR_LENGTH + EOF_LENGTH

\* f is the flash, origin the address that pos counts from, start the first pos
scanOf(f, origin, start, nameLength) ==
    LET w == EntryWidth(nameLength)
        hasByte(a, b) == byteAt(f, a) = b
        \* the while loop stops at the first slot without its BOF or EOF mark
        stop(k) == \/ ~hasByte(origin + start + k * w, BOF_BYTE)
                   \/ ~hasByte(origin + start + k * w + w - EOF_LENGTH, EOF_BYTE)
        entry(k) ==
            LET pos == start + k * w
            IN  [bof    |-> pos,
                 path   |-> trim(flashRead(f, nameLength, origin + pos + BOF_LENGTH)),
                 length |-> b4u32(flashRead(f, FILE_SIZE_LENGTH,
                                origin + pos + BOF_LENGTH + nameLength)),
                 addr   |-> b4u32(flashRead(f, FILE_ADDR_LENGTH,
                                origin + pos + BOF_LENGTH + nameLength + FILE_SIZE_LENGTH)),
                 eof    |-> pos + w - EOF_LENGTH]
    IN  Bind(CHOOSE k \in 0..(flash_addr + flash_length) \div w :
                 stop(k) /\ \A j \in 0..(k - 1) : ~stop(j),
             LAMBDA n :
            [err |-> IF hasByte(origin + start + n * w, BOF_BYTE)
                     THEN "CorruptEntry" ELSE "none",
             ls  |-> [k \in 1..n |-> entry(k - 1)]])

\* 16-byte-name variant: pos, bof and eof are absolute addresses
\* (variant of list16 that scans without testing the header)
list16Unchecked(fl) ==
    Bind(fl, LAMBDA f : scanOf(f, 0, flash_addr + Len(HEADER_BYTE), FILE_NAME_LENGTH))

list16(fl) ==
    IF check(fl)
    THEN Bind(fl, LAMBDA f :
             scanOf(f, 0, flash_addr + Len(HEADER_BYTE), FILE_NAME_LENGTH))
    ELSE [err |-> "NotInitialized", ls |-> <<>>]

\* 32-byte-name variant, list(true): pos, bof and eof are offsets in the region
list32(fl) ==
    IF check(fl)
    THEN Bind(fl, LAMBDA f :
             scanOf(f, flash_addr, Len(HEADER_BYTES), FILE_NAME_LENGTH32))
    ELSE [err |-> "NotInitialized", ls |-> <<>>]

list(fl) == IF variant = 16 THEN list16(fl) ELSE list32(fl)

\* ls.find((x) => x.path.toLowerCase() == path.toLowerCase()): index, 0 if none
existsFile(ls, path) ==
    LET hits == {i \in 1..Len(ls) : toLowerCase(ls[i].path) = toLowerCase(path)}
    IN  IF hits = {} THEN 0 ELSE CHOOSE i \in hits : \A j \in hits : i <= j

(***************************************************************************)
(* openFile, mode "w": the allocator                                       *)
(***************************************************************************)
NoFile == [bof |-> 0, addr |-> 0]

\* 16-byte-name variant, lines 169-178
newBof16(ls) ==
    IF Len(ls) > 0 THEN ls[Len(ls)].eof + EOF_LENGTH ELSE flash_addr + Len(HEADER_BYTE)

\* lastUsedAddr16 with the size of an unclosed entry taken as 0 (a variant
\* against which the properties are tried)
lastUsedAddr16Clamped(ls) ==
    IF Len(ls) > 0
    THEN ls[Len(ls)].addr + (IF ls[Len(ls)].length < 0 THEN 0 ELSE ls[Len(ls)].length)
    ELSE newBof16(ls)

lastUsedAddr16(ls) ==
    IF Len(ls) > 0 THEN ls[Len(ls)].addr + ls[Len(ls)].length ELSE newBof16(ls)

\* line 181
newEof16(newBof) ==
    newBof + BOF_LENGTH + FILE_NAME_LENGTH + FILE_SIZE_LENGTH + FILE_ADDR_LENGTH + EOF_LENGTH

\* directoryFull16 testing the BOF byte of the new entry, not its EOF byte (a
\* variant against which the properties are tried)
directoryFull16Bof(newEof) ==
    (newEof - (BOF_LENGTH + FILE_NAME_LENGTH + FILE_SIZE_LENGTH + FILE_ADDR_LENGTH + EOF_LENGTH))
        - flash_addr > PAGE_SIZE - 1

\* line 182
directoryFull16(newEof) == newEof - flash_addr > PAGE_SIZE - 1

\* newAddr16 without the step to the next page (a variant against which the
\* properties are tried)
newAddr16SamePage(lastUsedAddr) ==
    flash_addr + (((lastUsedAddr - flash_addr) \div PAGE_SIZE) * PAGE_SIZE)

\* Math.floor(x / PAGE_SIZE) of an integer x (x \div rounds down in TLA+)
\* line 187
newAddr16(lastUsedAddr) ==
    flash_addr + ((((lastUsedAddr - flash_addr) \div PAGE_SIZE) + 1) * PAGE_SIZE)

\* line 189
regionFull16(newAddr) == newAddr >= flash_length

\* lines 193-197: BOF, name, content address, EOF; the size field is skipped
writeEntry16(fl, newBof, newPath, newAddr) ==
    LET f1 == flashWrite(fl, <<BOF_BYTE>>, newBof)
        f2 == flashWrite(f1, newPath, newBof + BOF_LENGTH)
        f3 == flashWrite(f2, u32b4(newAddr),
                  newBof + BOF_LENGTH + FILE_NAME_LENGTH + FILE_SIZE_LENGTH)
    IN  flashWrite(f3, <<EOF_BYTE>>,
            newBof + BOF_LENGTH + FILE_NAME_LENGTH + FILE_SIZE_LENGTH + FILE_ADDR_LENGTH)

\* the storage after the first k of the four writes of writeEntry16
partialEntry16(fl, newBof, newPath, newAddr, k) ==
    LET f1 == flashWrite(fl, <<BOF_BYTE>>, newBof)
        f2 == flashWrite(f1, newPath, newBof + BOF_LENGTH)
        f3 == flashWrite(f2, u32b4(newAddr),
                  newBof + BOF_LENGTH + FILE_NAME_LENGTH + FILE_SIZE_LENGTH)
    IN  IF k = 0 THEN fl
        ELSE IF k = 1 THEN f1
        ELSE IF k = 2 THEN f2
        ELSE IF k = 3 THEN f3
        ELSE writeEntry16(fl, newBof, newPath, newAddr)

openWrite16(fl, ls, path) ==
    LET newPath == padEnd(path, FILE_NAME_LENGTH)
        newBof  == newBof16(ls)
        newAddr == newAddr16(lastUsedAddr16(ls))
    IN  IF existsFile(ls, path) # 0
        THEN [err |-> "FileExists", fl |-> fl, file |-> NoFile]
        ELSE IF Len(path) > FILE_NAME_LENGTH
        THEN [err |-> "NameTooLong", fl |-> fl, file |-> NoFile]
        ELSE IF directoryFull16(newEof16(newBof))
        THEN [err |-> "DirectoryFull", fl |-> fl, file |-> NoFile]
        ELSE IF regionFull16(newAddr)
        THEN [err |-> "RegionFull", fl |-> fl, file |-> NoFile]
        ELSE [err |-> "none",
              fl |-> writeEntry16(fl, newBof, newPath, newAddr),
              file |-> [bof |-> newBof, addr |-> newAddr]]

\* 32-byte-name variant, lines 595-604
newBof32(ls) ==
    IF Len(ls) > 0 THEN ls[Len(ls)].eof + EOF_LENGTH ELSE Len(HEADER_BYTES)

lastUsedAddr32(ls) ==
    IF Len(ls) > 0 THEN ls[Len(ls)].addr + ls[Len(ls)].length - 1 ELSE PAGE_SIZE - 1

\* line 607
newEof32(newBof) ==
    newBof + BOF_LENGTH + FILE_NAME_LENGTH32 + FILE_SIZE_LENGTH + FILE_ADDR_LENGTH + EOF_LENGTH

\* directoryFull32 testing the BOF byte of the new entry, not its EOF byte (a
\* variant against which the properties are tried)
directoryFull32Bof(newEof) ==
    newEof - (BOF_LENGTH + FILE_NAME_LENGTH32 + FILE_SIZE_LENGTH + FILE_ADDR_LENGTH + EOF_LENGTH)
        > PAGE_SIZE - 1

\* line 608
directoryFull32(newEof) == newEof > PAGE_SIZE - 1

\* line 613
newAddr32(lastUsedAddr) == lastUsedAddr + 1

\* line 614
regionFull32(newAddr) == newAddr >= flash_length

\* lines 619-623
writeEntry32(fl, newBof, newPath, newAddr) ==
    LET f1 == flashWrite(fl, <<BOF_BYTE>>, flash_addr + newBof)
        f2 == flashWrite(f1, newPath, flash_addr + newBof + BOF_LENGTH)
        f3 == flashWrite(f2, u32b4(newAddr),
                  flash_addr + newBof + BOF_LENGTH + FILE_NAME_LENGTH32 + FILE_SIZE_LENGTH)
    IN  flashWrite(f3, <<EOF_BYTE>>,
            flash_addr + newBof + BOF_LENGTH + FILE_NAME_LENGTH32 + FILE_SIZE_LENGTH
                + FILE_ADDR_LENGTH)

openWrite32(fl, ls, path) ==
    LET newPath == padEnd(path, FILE_NAME_LENGTH32)
        newBof  == newBof32(ls)
        newAddr == newAddr32(lastUsedAddr32(ls))
    IN  IF existsFile(ls, path) # 0
        THEN [err |-> "FileExists", fl |-> fl, file |-> NoFile]
        ELSE IF Len(path) > FILE_NAME_LENGTH32
        THEN [err |-> "NameTooLong", fl |-> fl, file |-> NoFile]
        ELSE IF directoryFull32(newEof32(newBof))
        THEN [err |-> "DirectoryFull", fl |-> fl, file |-> NoFile]
        ELSE IF regionFull32(newAddr)
        THEN [err |-> "RegionFull", fl |-> fl, file |-> NoFile]
        ELSE [err |-> "none",
              fl |-> writeEntry32(fl, newBof, newPath, newAddr),
              file |-> [bof |-> newBof, addr |-> newAddr]]

\* openFile(path, mode): [err, fl, file]; file is the fileIndex of the new handle
openFile(fl, path, mode) ==
    Bind(list(fl), LAMBDA l :
        IF l.err # "none"
        THEN [err |-> l.err, fl |-> fl, file |-> NoFile]
        ELSE IF mode = "w"
        THEN (IF variant = 16 THEN openWrite16(fl, l.ls, path)
              ELSE openWrite32(fl, l.ls, path))
        ELSE IF mode = "r"
        THEN (IF existsFile(l.ls, path) # 0
              THEN [err |-> "none", fl |-> fl, file |-> l.ls[existsFile(l.ls, path)]]
              ELSE [err |-> "FileNotFound", fl |-> fl, file |-> NoFile])
        ELSE [err |-> "InvalidMode", fl |-> fl, file |-> NoFile])

(***************************************************************************)
(* FileFS: the file handle.  mode, fileIndex and seekAddr are the fields   *)
(* of the object; name, closed, data and nio are history kept for the      *)
(* properties (the path given to openFile, whether close() has returned,   *)
(* the bytes of the accepted write calls, and the number of accepted       *)
(* write, skip and readBytes calls).                                       *)
(***************************************************************************)
FileFS(fileIndex, mode, path) ==
    [mode      |-> mode,
     fileIndex |-> fileIndex,
     seekAddr  |-> IF variant = 16 THEN fileIndex.addr ELSE 0,
     name      |-> path,
     closed    |-> FALSE,
     data      |-> <<>>,
     nio       |-> 0]

\* a write payload: an array or a string ("bytes"), or one number ("number")
lenBuffer(buffer) == IF buffer.kind = "bytes" THEN Len(buffer.bytes) ELSE 1

payload(buffer) == IF buffer.kind = "bytes" THEN buffer.bytes ELSE <<buffer.value % 256>>

\* write, 16-byte-name variant: [err, fl, seekAddr]
insufficientSpace16(seekAddr, len) == seekAddr + len > flash_length

\* (variant of write16 that programs the bytes before it tests the space)
write16Eager(h, fl, buffer) ==
    IF h.mode = "r"
    THEN [err |-> "ModeMismatch", fl |-> fl, seekAddr |-> h.seekAddr]
    ELSE IF insufficientSpace16(h.seekAddr, lenBuffer(buffer))
    THEN [err |-> "InsufficientSpace",
          fl |-> flashWrite(fl, payload(buffer), h.seekAddr),
          seekAddr |-> h.seekAddr]
    ELSE [err |-> "none",
          fl |-> flashWrite(fl, payload(buffer), h.seekAddr),
          seekAddr |-> h.seekAddr + lenBuffer(buffer)]

write16(h, fl, buffer) ==
    IF h.mode = "r"
    THEN [err |-> "ModeMismatch", fl |-> fl, seekAddr |-> h.seekAddr]
    ELSE IF insufficientSpace16(h.seekAddr, lenBuffer(buffer))
    THEN [err |-> "InsufficientSpace", fl |-> fl, seekAddr |-> h.seekAddr]
    ELSE [err |-> "none",
          fl |-> flashWrite(fl, payload(buffer), h.seekAddr),
          seekAddr |-> h.seekAddr + lenBuffer(buffer)]

\* write, 32-byte-name variant
insufficientSpace32(h, len) == h.fileIndex.addr + h.seekAddr + len > flash_length

write32(h, fl, buffer) ==
    IF h.mode = "r"
    THEN [err |-> "ModeMismatch", fl |-> fl, seekAddr |-> h.seekAddr]
    ELSE IF insufficientSpace32(h, lenBuffer(buffer))
    THEN [err |-> "InsufficientSpace", fl |-> fl, seekAddr |-> h.seekAddr]
    ELSE [err |-> "none",
          fl |-> flashWrite(fl, payload(buffer),
                     flash_addr + h.fileIndex.addr + h.seekAddr),
          seekAddr |-> h.seekAddr + lenBuffer(buffer)]

\* close: the size written back, and the flash after it
lenFile(h) == h.seekAddr - h.fileIndex.addr

close16(h, fl) ==
    IF h.mode = "w"
    THEN flashWrite(fl, u32b4(lenFile(h)), h.fileIndex.bof + BOF_LENGTH + FILE_NAME_LENGTH)
    ELSE fl

close32(h, fl) ==
    IF h.mode = "w"
    THEN flashWrite(fl, u32b4(lenFile(h)),
             flash_addr + h.fileIndex.bof + BOF_LENGTH + FILE_NAME_LENGTH32)
    ELSE fl

\* readBytes: [err, undef, bytes, seekAddr]; undef is the return of no value
\* (variant of availableLength that never shortens the request)
availableLengthUnclamped(absEof, seekAddr, length) == length

availableLength(absEof, seekAddr, length) ==
    IF absEof - (seekAddr + length) > 0 THEN length ELSE absEof - seekAddr

readBytes16(h, fl, length) ==
    IF h.mode = "w"
    THEN [err |-> "ModeMismatch", undef |-> TRUE, bytes |-> <<>>, seekAddr |-> h.seekAddr]
    ELSE LET avail == availableLength(h.fileIndex.addr + h.fileIndex.length,
                                      h.seekAddr, length)
         IN  IF avail > 0
             THEN [err |-> "none", undef |-> FALSE,
                   bytes |-> flashRead(fl, avail, h.seekAddr),
                   seekAddr |-> h.seekAddr + avail]
             ELSE [err |-> "none", undef |-> TRUE, bytes |-> <<>>,
                   seekAddr |-> h.seekAddr]

readBytes32(h, fl, length) ==
    IF h.mode = "w"
    THEN [err |-> "ModeMismatch", undef |-> TRUE, bytes |-> <<>>, seekAddr |-> h.seekAddr]
    ELSE LET avail == availableLength(h.fileIndex.length, h.seekAddr, length)
         IN  IF avail > 0
             THEN [err |-> "none", undef |-> FALSE,
                   bytes |-> flashRead(fl, avail,
                                 flash_addr + h.fileIndex.addr + h.seekAddr),
                   seekAddr |-> h.seekAddr + avail]
             ELSE [err |-> "none", undef |-> TRUE, bytes |-> <<>>,
                   seekAddr |-> h.seekAddr]

\* skip: [err, seekAddr].  In the 16-byte-name variant line 315 reads
\* newSeekAddr, which no scope declares: the call throws a ReferenceError.
skip16(h, nBytes) ==
    IF nBytes = 0 THEN [err |-> "none", seekAddr |-> h.seekAddr]
    ELSE IF h.mode = "r" THEN [err |-> "ModeMismatch", seekAddr |-> h.seekAddr]
    ELSE IF nBytes < 0 THEN [err |-> "NegativeValue", seekAddr |-> h.seekAddr]
    ELSE [err |-> "ReferenceError", seekAddr |-> h.seekAddr]

skip32(h, nBytes) ==
    IF nBytes = 0 THEN [err |-> "none", seekAddr |-> h.seekAddr]
    ELSE IF h.mode = "r" THEN [err |-> "ModeMismatch", seekAddr |-> h.seekAddr]
    ELSE IF nBytes < 0 THEN [err |-> "NegativeValue", seekAddr |-> h.seekAddr]
    ELSE IF h.fileIndex.addr + (h.seekAddr + nBytes) > flash_length
    THEN [err |-> "InsufficientSpace", seekAddr |-> h.seekAddr]
    ELSE [err |-> "none", seekAddr |-> h.seekAddr + nBytes]

\* the position a handle reports: relative to the content start
position(h) == IF variant = 16 THEN h.seekAddr - h.fileIndex.addr ELSE h.seekAddr

\* seek with a position: [err, seekAddr].  "NegativeValue" is the error
\* "Seek value should be positive number!", "WrongSeekPosition" the error
\* "Wrong position to seek!".
\* (variant of seek16 that accepts every position that is not negative)
seek16Unbounded(h, nBytes) ==
    IF h.mode = "w" THEN [err |-> "ModeMismatch", seekAddr |-> h.seekAddr]
    ELSE IF nBytes < 0 THEN [err |-> "NegativeValue", seekAddr |-> h.seekAddr]
    ELSE [err |-> "none", seekAddr |-> h.fileIndex.addr + nBytes]

seek16(h, nBytes) ==
    IF h.mode = "w" THEN [err |-> "ModeMismatch", seekAddr |-> h.seekAddr]
    ELSE IF nBytes < 0 THEN [err |-> "NegativeValue", seekAddr |-> h.seekAddr]
    ELSE IF \/ h.fileIndex.addr + nBytes < h.fileIndex.addr
            \/ h.fileIndex.addr + nBytes > h.fileIndex.addr + h.fileIndex.length
    THEN [err |-> "WrongSeekPosition", seekAddr |-> h.seekAddr]
    ELSE [err |-> "none", seekAddr |-> h.fileIndex.addr + nBytes]

seek32(h, nBytesPos) ==
    IF h.mode = "w" THEN [err |-> "ModeMismatch", seekAddr |-> h.seekAddr]
    ELSE IF nBytesPos < 0 THEN [err |-> "NegativeValue", seekAddr |-> h.seekAddr]
    ELSE IF nBytesPos > h.fileIndex.length
    THEN [err |-> "WrongSeekPosition", seekAddr |-> h.seekAddr]
    ELSE [err |-> "none", seekAddr |-> nBytesPos]

\* E.toString: the string whose character codes are the bytes of the buffer
EtoString(buffer) == [i \in 1..Len(buffer) |-> buffer[i] % 256]

\* a string is falsy exactly when it is empty
Truthy(str) == Len(str) > 0

\* read: readBytes, and the bytes as a string unless no value came back
read(h, fl, length) ==
    Bind(IF variant = 16 THEN readBytes16(h, fl, length) ELSE readBytes32(h, fl, length),
         LAMBDA r : IF r.err = "none" /\ ~r.undef
                    THEN [r EXCEPT !.bytes = EtoString(r.bytes)]
                    ELSE r)

(***************************************************************************)
(* pipe.  A timer is the closure pipe() leaves behind: the handle it was   *)
(* called on, chunkSize, the options it tests, whether its interval is     *)
(* still scheduled, and what it did to the destination.  A destination is  *)
(* "sound" (write never raises) or "failing" (write may raise).  An error  *)
(* that leaves the interval callback is reported by the host and the      *)
(* interval stays scheduled: only clearInterval removes it.                *)
(***************************************************************************)
\* (variant of chunkSizeOf that ignores options.chunkSize)
chunkSizeIgnored(options) == 32

\* let chunkSize = options && options.chunkSize || 32; chunkSize 0 is unset
chunkSizeOf(options) ==
    IF options.given /\ options.chunkSize # 0 THEN options.chunkSize ELSE 32

\* what pipe() schedules
Timer(h, destination, options, hd) ==
    [h |-> h, dest |-> destination, options |-> options,
     chunkSize |-> chunkSizeOf(options),
     active |-> TRUE, events |-> <<>>, thrown |-> 0,
     start |-> position(hd), nio |-> hd.nio]

Event(ev, data, raised) == [ev |-> ev, data |-> data, raised |-> raised]

\* (variant of completion that calls destination.end() whatever options say)
completionAlwaysEnds(options) ==
    <<Event("end", <<>>, FALSE)>>
        \o (IF options.given /\ options.complete
            THEN <<Event("complete", <<>>, FALSE)>> ELSE <<>>)

\* the calls made once a read returned nothing: destination.end() if
\* options.end == true, then options.complete() if it is a function
completion(options) ==
    (IF options.given /\ options.end THEN <<Event("end", <<>>, FALSE)>> ELSE <<>>)
        \o (IF options.given /\ options.complete
            THEN <<Event("complete", <<>>, FALSE)>> ELSE <<>>)

\* one run of the interval callback of timer tm on handle hd; raises tells
\* whether destination.write raises if it is called.  The result is the
\* timer and the cursor of the handle afterwards, and the error thrown.
pipeRead(tm, hd, fl, raises) ==
    Bind(read(hd, fl, tm.chunkSize), LAMBDA r :
        IF r.err # "none"
        THEN [tm |-> [tm EXCEPT !.thrown = @ + 1], seekAddr |-> r.seekAddr, err |-> r.err]
        ELSE IF ~r.undef /\ Truthy(r.bytes)
        THEN IF raises
             THEN [tm |-> [tm EXCEPT !.events = Append(@, Event("write", r.bytes, TRUE)),
                                     !.thrown = @ + 1],
                   seekAddr |-> r.seekAddr, err |-> "DestinationError"]
             ELSE [tm |-> [tm EXCEPT !.events = Append(@, Event("write", r.bytes, FALSE))],
                   seekAddr |-> r.seekAddr, err |-> "none"]
        ELSE [tm |-> [tm EXCEPT !.active = FALSE,
                                !.events = @ \o completion(tm.options)],
              seekAddr |-> r.seekAddr, err |-> "none"])

(***************************************************************************)
(* Inputs                                                                  *)
(***************************************************************************)
\* a name one character longer than the name field
LongName == [i \in 1..(NameLength + 1) |-> 120]

\* "a", "A", "a " and "b"
Names == {<<97>>, <<65>>, <<97, 32>>, <<98>>}

\* the openFile calls of SpecNames: every name and the long name for
\* writing, and one call with a mode that is neither "r" nor "w"
Opens ==
    {[path |-> n, mode |-> "w"] : n \in Names}
        \cup {[path |-> LongName, mode |-> "w"], [path |-> <<98>>, mode |-> "a"]}

\* the openFile calls of Spec: two files for writing, one of them for reading
IoOpens ==
    {[path |-> <<97>>, mode |-> "w"], [path |-> <<97>>, mode |-> "r"],
     [path |-> <<98>>, mode |-> "w"]}

\* [1, 2, 3] and the number 263 (one byte, 7)
Buffers ==
    {[kind |-> "bytes", bytes |-> <<1, 2, 3>>], [kind |-> "number", value |-> 263]}

Regions ==
    {[addr |-> 0, length |-> RegionPages * PAGE_SIZE],
     [addr |-> PAGE_SIZE, length |-> (RegionPages - 1) * PAGE_SIZE]}

\* the name of creation k (from 0): two lower-case letters, "aa", "ab", ...
CapName(k) == <<97 + (k \div 26), 97 + (k % 26)>>

R0 ==
    [op |-> "init", h |-> 0, err |-> "none", ok |-> TRUE, name |-> <<>>, mode |-> "",
     pos |-> 0, len |-> 0, bytes |-> <<>>, undef |-> FALSE, entries |-> 0, val |-> 0]

(***************************************************************************)
(* The state after construction: new FlashFS(flash, start_addr, length)    *)
(* on an erased device.                                                    *)
(***************************************************************************)
Init ==
    /\ variant \in {16, 32}
    /\ \E r \in Regions : flash_addr = r.addr /\ flash_length = r.length
    /\ flash = <<>>
    /\ handles = <<>>
    /\ timers = <<>>
    /\ ret = R0

(***************************************************************************)
(* Actions: one per call of the programmatic surface.  format() touches    *)
(* the device only: the FileFS objects made before it and the intervals of *)
(* their pipes stay as they are.                                           *)
(***************************************************************************)
Format ==
    /\ flash' = format(flash)
    /\ ret' = [R0 EXCEPT !.op = "format", !.ok = check(flash'),
                         !.entries = Len(list(flash).ls)]
    /\ UNCHANGED <<variant, flash_addr, flash_length, handles, timers>>

\* the caller lets go of every FileFS object it holds (no call of the
\* module); an interval of pipe keeps its object, so none is scheduled
Release ==
    /\ handles # <<>>
    /\ timers = <<>>
    /\ handles' = <<>>
    /\ ret' = [R0 EXCEPT !.op = "release"]
    /\ UNCHANGED <<variant, flash_addr, flash_length, flash, timers>>

\* the caller let go of its objects and is about to call format(): the
\* handles also carry the record of what was written through them (data),
\* which the properties compare the device with, so no file is opened
\* between the two
Formatting == ret.op = "release"

Prepare ==
    /\ flash' = prepare(flash)
    /\ ret' = [R0 EXCEPT !.op = "prepare", !.ok = check(flash')]
    /\ UNCHANGED <<variant, flash_addr, flash_length, timers, handles>>

OpenFile(path, mode) ==
    \E r \in {openFile(flash, path, mode)} :
        /\ flash' = r.fl
        /\ handles' = IF r.err = "none"
                      THEN Append(handles, FileFS(r.file, mode, path))
                      ELSE handles
        /\ ret' = [R0 EXCEPT !.op = "openFile", !.err = r.err, !.name = path,
                             !.mode = mode, !.entries = Len(list(flash).ls),
                             !.h = IF r.err = "none" THEN Len(handles) + 1 ELSE 0]
        /\ UNCHANGED <<variant, flash_addr, flash_length, timers>>

Write(h, buffer) ==
    \E r \in {IF variant = 16 THEN write16(handles[h], flash, buffer)
              ELSE write32(handles[h], flash, buffer)} :
        /\ flash' = r.fl
        /\ handles' = [handles EXCEPT
               ![h].seekAddr = r.seekAddr,
               ![h].data = IF r.err = "none" THEN @ \o payload(buffer) ELSE @,
               ![h].nio = IF r.err = "none" THEN @ + 1 ELSE @]
        /\ ret' = [R0 EXCEPT !.op = "write", !.h = h, !.err = r.err,
                             !.pos = handles[h].seekAddr, !.len = lenBuffer(buffer)]
        /\ UNCHANGED <<variant, flash_addr, flash_length, timers>>

ReadBytes(h, length) ==
    \E r \in {IF variant = 16 THEN readBytes16(handles[h], flash, length)
              ELSE readBytes32(handles[h], flash, length)} :
        /\ handles' = [handles EXCEPT
               ![h].seekAddr = r.seekAddr,
               ![h].nio = IF r.err = "none" THEN @ + 1 ELSE @]
        /\ ret' = [R0 EXCEPT !.op = "readBytes", !.h = h, !.err = r.err,
                             !.pos = handles[h].seekAddr, !.len = length,
                             !.bytes = r.bytes, !.undef = r.undef]
        /\ UNCHANGED <<variant, flash_addr, flash_length, timers, flash>>

Skip(h, nBytes) ==
    \E r \in {IF variant = 16 THEN skip16(handles[h], nBytes)
              ELSE skip32(handles[h], nBytes)} :
        /\ handles' = [handles EXCEPT
               ![h].seekAddr = r.seekAddr,
               ![h].nio = IF r.err = "none" THEN @ + 1 ELSE @]
        /\ ret' = [R0 EXCEPT !.op = "skip", !.h = h, !.err = r.err,
                             !.pos = handles[h].seekAddr, !.len = nBytes,
                             !.val = IF r.err = "none" THEN position(handles'[h]) ELSE 0]
        /\ UNCHANGED <<variant, flash_addr, flash_length, timers, flash>>

Seek(h, nBytes) ==
    \E r \in {IF variant = 16 THEN seek16(handles[h], nBytes)
              ELSE seek32(handles[h], nBytes)} :
        /\ handles' = [handles EXCEPT ![h].seekAddr = r.seekAddr]
        /\ ret' = [R0 EXCEPT !.op = "seek", !.h = h, !.err = r.err,
                             !.pos = handles[h].seekAddr, !.len = nBytes,
                             !.val = IF r.err = "none" THEN position(handles'[h]) ELSE 0]
        /\ UNCHANGED <<variant, flash_addr, flash_length, timers, flash>>

\* new FlashFS(flash, start_addr, length) on the same device: the
\* constructor stores its arguments in params, which the module has once
\* and every FlashFS and FileFS object reads
Construct(start_addr, length) ==
    /\ flash_addr' = start_addr
    /\ flash_length' = length
    /\ ret' = [R0 EXCEPT !.op = "construct", !.pos = start_addr, !.len = length]
    /\ UNCHANGED <<variant, flash, handles, timers>>

\* openFile(path, "w") of the 16-byte-name variant is cut short after k of
\* its four device writes: execution stops, and the program starts again
\* on the same storage with no handle and no timer
CrashInOpenFile(path, k) ==
    /\ variant = 16
    /\ \E r \in {openFile(flash, path, "w")} :
          /\ r.err = "none"
          /\ flash' = partialEntry16(flash, r.file.bof, padEnd(path, FILE_NAME_LENGTH),
                                     r.file.addr, k)
    /\ handles' = <<>>
    /\ timers' = <<>>
    /\ ret' = [R0 EXCEPT !.op = "crash", !.name = path, !.len = k,
                         !.entries = Len(list(flash).ls)]
    /\ UNCHANGED <<variant, flash_addr, flash_length>>

Pipe(h, destination, options) ==
    /\ timers' = Append(timers, Timer(h, destination, options, handles[h]))
    /\ ret' = [R0 EXCEPT !.op = "pipe", !.h = h, !.val = Len(timers) + 1]
    /\ UNCHANGED <<variant, flash_addr, flash_length, flash, handles>>

\* the interval of timer t fires; a failing destination raises in at most
\* MaxRaises of its write calls
PipeRead(t) ==
    /\ timers[t].active
    /\ \E raises \in (IF timers[t].dest = "failing" /\ timers[t].thrown < MaxRaises
                       THEN BOOLEAN ELSE {FALSE}) :
       \E r \in {pipeRead(timers[t], handles[timers[t].h], flash, raises)} :
          /\ raises => r.err = "DestinationError"
          /\ timers' = [timers EXCEPT ![t] = r.tm]
          /\ handles' = [handles EXCEPT ![timers[t].h].seekAddr = r.seekAddr]
          /\ ret' = [R0 EXCEPT !.op = "pipeRead", !.h = timers[t].h, !.val = t,
                               !.err = r.err, !.pos = handles[timers[t].h].seekAddr]
    /\ UNCHANGED <<variant, flash_addr, flash_length, flash>>

Read(h, length) ==
    \E r \in {read(handles[h], flash, length)} :
        /\ handles' = [handles EXCEPT
               ![h].seekAddr = r.seekAddr,
               ![h].nio = IF r.err = "none" THEN @ + 1 ELSE @]
        /\ ret' = [R0 EXCEPT !.op = "read", !.h = h, !.err = r.err,
                             !.pos = handles[h].seekAddr, !.len = length,
                             !.bytes = r.bytes, !.undef = r.undef]
        /\ UNCHANGED <<variant, flash_addr, flash_length, timers, flash>>

Close(h) ==
    /\ flash' = IF variant = 16 THEN close16(handles[h], flash)
                ELSE close32(handles[h], flash)
    /\ handles' = [handles EXCEPT ![h].closed = TRUE]
    /\ ret' = [R0 EXCEPT !.op = "close", !.h = h, !.pos = handles[h].seekAddr]
    /\ UNCHANGED <<variant, flash_addr, flash_length, timers>>

\* the lengths a caller of readBytes asks for: one byte, or the whole file
ReadLengths(h) ==
    {1} \cup (IF handles[h].mode = "r" /\ handles[h].fileIndex.length > 0
              THEN {handles[h].fileIndex.length} ELSE {})

OpenWriters == {i \in 1..Len(handles) : handles[i].mode = "w" /\ ~handles[i].closed}

(***************************************************************************)
(* Spec: any order of calls on at most MaxHandles handles, small payloads. *)
(* In Spec, SpecNames, SpecSeq, SpecAlloc, SpecCap, SpecRead, SpecOpen and *)
(* SpecErr the caller formats with no FileFS object in its hands;          *)
(* SpecErrHeld, SpecShared and SpecCrash also format while handles are     *)
(* held.                                                                   *)
(***************************************************************************)
Next ==
    \/ handles = <<>> /\ Format
    \/ Release
    \/ ~Formatting /\ Prepare
    \/ \E o \in IoOpens :
          ~Formatting /\ Len(handles) < MaxHandles /\ OpenFile(o.path, o.mode)
    \/ \E h \in 1..Len(handles), buffer \in Buffers :
          handles[h].nio < MaxWrites /\ Write(h, buffer)
    \/ \E h \in 1..Len(handles) : \E length \in ReadLengths(h) :
          handles[h].nio < MaxReads /\ ReadBytes(h, length)
    \/ \E h \in 1..Len(handles) : handles[h].nio < MaxWrites /\ Skip(h, 5)
    \/ \E h \in 1..Len(handles) : Close(h)

Spec == Init /\ [][Next]_vars

(***************************************************************************)
(* SpecNames: the directory under every order of openFile(name, "w") and   *)
(* close calls (no content is written)                                     *)
(***************************************************************************)
NextNames ==
    \/ handles = <<>> /\ Format
    \/ Release
    \/ \E o \in Opens : ~Formatting /\ Len(handles) < MaxOpens /\ OpenFile(o.path, o.mode)
    \/ \E h \in 1..Len(handles) : handles[h].mode = "w" /\ Close(h)

SpecNames == Init /\ [][NextNames]_vars

(***************************************************************************)
(* SpecSeq: one writer at a time.  A file is created, written and closed   *)
(* before the next one is created, and no handle is used after its close;  *)
(* payloads of a whole page make files of several pages.                   *)
(***************************************************************************)
\* "a" and "b"
SeqNames == {<<97>>, <<98>>}

Big == [i \in 1..PAGE_SIZE |-> i % 251]

SeqBuffers == {[kind |-> "bytes", bytes |-> <<1, 2, 3>>], [kind |-> "bytes", bytes |-> Big]}

NextSeq ==
    \/ handles = <<>> /\ Format
    \/ Release
    \/ \E path \in SeqNames :
          /\ ~Formatting
          /\ Len(handles) < SeqHandles
          /\ OpenWriters = {}
          /\ OpenFile(path, "w")
    \/ \E path \in SeqNames :
          /\ ~Formatting
          /\ Len(handles) < SeqHandles
          /\ OpenWriters = {}
          /\ OpenFile(path, "r")
    \/ \E h \in OpenWriters, buffer \in SeqBuffers :
          handles[h].nio < MaxWrites /\ Write(h, buffer)
    \/ \E h \in 1..Len(handles) : \E length \in ReadLengths(h) :
          /\ handles[h].mode = "r"
          /\ ~handles[h].closed
          /\ handles[h].nio < MaxReads
          /\ ReadBytes(h, length)
    \/ \E h \in 1..Len(handles) : ~handles[h].closed /\ Close(h)

SpecSeq == Init /\ [][NextSeq]_vars

(***************************************************************************)
(* SpecAlloc: the allocator, one writer at a time.  Files are created,     *)
(* written and closed one after the other under generated names, and no   *)
(* handle is used after its close.  Read handles are left out: no call on *)
(* them writes to storage.                                                 *)
(***************************************************************************)
NextAlloc ==
    \/ handles = <<>> /\ Format
    \/ Release
    \/ /\ ~Formatting
       /\ Len(handles) < AllocFiles
       /\ OpenWriters = {}
       /\ OpenFile(CapName(Len(handles)), "w")
    \/ \E h \in OpenWriters, buffer \in SeqBuffers :
          handles[h].nio < MaxWrites /\ Write(h, buffer)
    \/ \E h \in OpenWriters : Close(h)

SpecAlloc == Init /\ [][NextAlloc]_vars

(***************************************************************************)
(* SpecCap: the directory is filled.  In a region of CapPages pages files  *)
(* are created one after the other, each closed before the next is made,   *)
(* until CapFiles creations were accepted or the file system refuses.      *)
(***************************************************************************)
InitCap ==
    /\ variant \in {16, 32}
    /\ flash_addr = 0
    /\ flash_length = CapPages * PAGE_SIZE
    /\ flash = <<>>
    /\ handles = <<>>
    /\ timers = <<>>
    /\ ret = R0

NextCap ==
    \/ handles = <<>> /\ Format
    \/ Release
    \/ /\ ~Formatting
       /\ Len(handles) < CapFiles
       /\ OpenWriters = {}
       /\ OpenFile(CapName(Len(handles)), "w")
    \/ \E h \in OpenWriters : Close(h)

SpecCap == InitCap /\ [][NextCap]_vars

(***************************************************************************)
(* SpecRead: one file "a" is written in pieces of three bytes and read     *)
(* back through read handles; every handle is also given the calls of the  *)
(* other mode.                                                             *)
(***************************************************************************)
\* [1, 2, 3]
ReadBuffers == {[kind |-> "bytes", bytes |-> <<1, 2, 3>>]}

\* lengths asked of readBytes: within a piece, and more than any file holds
ReadSizes == {1, 2, 10}

\* positions asked of seek: before the start, at the start, inside, at the
\* end of and past a file of three bytes
SeekPositions == {-1, 0, 2, 3, 4}

NextRead ==
    \/ handles = <<>> /\ Format
    \/ Release
    \/ \E mode \in {"w", "r"} :
          ~Formatting /\ Len(handles) < ReadHandles /\ OpenFile(<<97>>, mode)
    \/ \E h \in 1..Len(handles), buffer \in ReadBuffers :
          handles[h].nio < MaxWrites /\ Write(h, buffer)
    \/ \E h \in 1..Len(handles) : handles[h].mode = "w" /\ ~handles[h].closed /\ Close(h)
    \/ \E h \in 1..Len(handles), length \in ReadSizes :
          handles[h].nio < MaxReads /\ ReadBytes(h, length)
    \/ \E h \in 1..Len(handles) : handles[h].mode = "w" /\ Read(h, 2)
    \/ \E h \in 1..Len(handles), nBytes \in SeekPositions : Seek(h, nBytes)
    \/ \E h \in 1..Len(handles), nBytes \in {0, 5} :
          handles[h].mode = "r" /\ handles[h].nio < MaxReads /\ Skip(h, nBytes)

SpecRead == Init /\ [][NextRead]_vars

(***************************************************************************)
(* SpecPipe: a file "a" is written and closed or left open, read handles   *)
(* on it are piped to a destination, and the intervals fire in any order   *)
(* with the reads of the caller; chunks of two bytes are asked for short   *)
(* files only.  SpecPipeFair: every scheduled interval keeps firing, as    *)
(* the event loop of the host makes it.                                    *)
(***************************************************************************)
\* 40 bytes: more than the default chunk of 32
Forty == [i \in 1..40 |-> i]

PipeBuffers == {[kind |-> "bytes", bytes |-> <<1, 2, 3>>], [kind |-> "bytes", bytes |-> Forty]}

\* no options; {chunkSize: 2, end: true, complete: f}; {end: false, complete: f};
\* {chunkSize: 16, end: true}
PipeOptions ==
    {[given |-> FALSE, chunkSize |-> 0, end |-> FALSE, complete |-> FALSE],
     [given |-> TRUE, chunkSize |-> 2, end |-> TRUE, complete |-> TRUE],
     [given |-> TRUE, chunkSize |-> 0, end |-> FALSE, complete |-> TRUE],
     [given |-> TRUE, chunkSize |-> 16, end |-> TRUE, complete |-> FALSE]}

Destinations == {"sound", "failing"}

NextPipe ==
    \/ handles = <<>> /\ Format
    \/ \E mode \in {"w", "r"} : Len(handles) < PipeHandles /\ OpenFile(<<97>>, mode)
    \/ \E h \in OpenWriters, buffer \in PipeBuffers :
          handles[h].nio < PipeWrites /\ Write(h, buffer)
    \/ \E h \in OpenWriters : Close(h)
    \/ \E h \in 1..Len(handles), destination \in Destinations, options \in PipeOptions :
          /\ handles[h].mode = "r"
          /\ Len(timers) < MaxPipes
          /\ options.chunkSize = 2 => handles[h].fileIndex.length <= Len(Forty) \div 4
          /\ Pipe(h, destination, options)
    \/ \E t \in 1..Len(timers) : PipeRead(t)
    \/ \E h \in 1..Len(handles) :
          handles[h].mode = "r" /\ handles[h].nio < PipeReads /\ ReadBytes(h, 1)

SpecPipe == Init /\ [][NextPipe]_vars

SpecPipeFair ==
    SpecPipe /\ \A t \in 1..MaxPipes : WF_vars(t <= Len(timers) /\ PipeRead(t))

(***************************************************************************)
(* SpecTwoPipes: files "a" and "b" are written one after the other, read   *)
(* handles are opened on them and moved by seek, then pipes are started on *)
(* different read handles and their intervals fire in any order; the       *)
(* caller does not read or seek on a handle once its pipe runs.            *)
(* SpecTwoPipesFair: every scheduled interval keeps firing.                *)
(***************************************************************************)
\* [1, 2, 3] and [9, 8, 7, 6, 5]
TwoBuffers ==
    {[kind |-> "bytes", bytes |-> <<1, 2, 3>>], [kind |-> "bytes", bytes |-> <<9, 8, 7, 6, 5>>]}

\* {chunkSize: 2, end: true, complete: f} and no options
TwoOptions ==
    {[given |-> TRUE, chunkSize |-> 2, end |-> TRUE, complete |-> TRUE],
     [given |-> FALSE, chunkSize |-> 0, end |-> FALSE, complete |-> FALSE]}

Readers == {i \in 1..Len(handles) : handles[i].mode = "r"}

\* the handles a pipe runs or ran on
Piped == {timers[t].h : t \in 1..Len(timers)}

NextTwoPipes ==
    \/ handles = <<>> /\ Format
    \/ \E path \in SeqNames :
          /\ Len(handles) < TwoHandles - TwoPipes
          /\ OpenWriters = {} /\ Readers = {}
          /\ OpenFile(path, "w")
    \/ \E h \in OpenWriters, buffer \in TwoBuffers :
          handles[h].nio < TwoWrites /\ Write(h, buffer)
    \/ \E h \in OpenWriters : Close(h)
    \/ \E path \in SeqNames :
          /\ Len(handles) < TwoHandles
          /\ OpenWriters = {} /\ timers = <<>>
          /\ OpenFile(path, "r")
    \/ \E h \in Readers \ Piped :
          /\ position(handles[h]) = 0 /\ timers = <<>>
          /\ Seek(h, 1)
    \/ \E h \in Readers \ Piped, options \in TwoOptions :
          /\ Len(timers) < TwoPipes
          /\ Pipe(h, "sound", options)
    \/ \E t \in 1..Len(timers) : PipeRead(t)

SpecTwoPipes == Init /\ [][NextTwoPipes]_vars

SpecTwoPipesFair ==
    SpecTwoPipes /\ \A t \in 1..TwoPipes : WF_vars(t <= Len(timers) /\ PipeRead(t))

(***************************************************************************)
(* SpecCrash: files "a" and "b" are created and closed, and a creation can *)
(* be cut short between two of its device writes.                          *)
(***************************************************************************)
\* device writes of openFile done before execution stops
CrashPoints == 1..3

NextCrash ==
    \/ Format
    \/ \E path \in SeqNames : Len(handles) < CrashHandles /\ OpenFile(path, "w")
    \/ \E h \in OpenWriters : Close(h)
    \/ \E path \in SeqNames, k \in CrashPoints : CrashInOpenFile(path, k)

SpecCrash == Init /\ [][NextCrash]_vars

(***************************************************************************)
(* SpecErr: the calls that fail.  The region is the directory page and a   *)
(* few bytes of content, so that it fills.  Files "a" and "b" are created, *)
(* written and closed; names that are too long, modes that do not exist,   *)
(* files that are missing, positions outside the file, calls of the other  *)
(* mode and creations cut short are all tried.                             *)
(***************************************************************************)
InitErr ==
    /\ variant \in {16, 32}
    /\ flash_addr = 0
    /\ flash_length = PAGE_SIZE + ErrTail
    /\ flash = <<>>
    /\ handles = <<>>
    /\ timers = <<>>
    /\ ret = R0

\* openFile calls: "a" and "b" for writing, "a" and "b" for reading, a name
\* that is too long, and a mode that is neither "r" nor "w"
ErrOpens ==
    {[path |-> n, mode |-> m] : n \in SeqNames, m \in {"w", "r"}}
        \cup {[path |-> LongName, mode |-> "w"], [path |-> <<97>>, mode |-> "a"]}

NextErr ==
    \/ handles = <<>> /\ Format
    \/ Release
    \/ \E o \in ErrOpens :
          ~Formatting /\ Len(handles) < ErrHandles /\ OpenFile(o.path, o.mode)
    \/ \E h \in 1..Len(handles), buffer \in ReadBuffers :
          ~handles[h].closed /\ handles[h].nio < MaxWrites /\ Write(h, buffer)
    \/ \E h \in OpenWriters : Close(h)
    \/ \E h \in 1..Len(handles) : handles[h].nio < MaxReads /\ ReadBytes(h, 2)
    \/ \E h \in 1..Len(handles), nBytes \in {-1, 1, 4} : Seek(h, nBytes)
    \/ \E h \in 1..Len(handles) : handles[h].mode = "r" /\ Skip(h, 5)
    \/ \E k \in CrashPoints :
          ~Formatting /\ handles = <<>> /\ CrashInOpenFile(<<97>>, k)

SpecErr == InitErr /\ [][NextErr]_vars

\* SpecErrHeld: the same calls, and format() also while the caller holds
\* handles, which it goes on using
NextErrHeld == NextErr \/ Format

SpecErrHeld == InitErr /\ [][NextErrHeld]_vars

(***************************************************************************)
(* SpecShared: a second FlashFS object is constructed on the same device,  *)
(* for a region that starts higher, while the first one and its handles    *)
(* are in use.                                                             *)
(***************************************************************************)
NextShared ==
    \/ Format
    \/ \E mode \in {"w", "r"} : Len(handles) < SharedHandles /\ OpenFile(<<97>>, mode)
    \/ \E h \in OpenWriters, buffer \in ReadBuffers :
          handles[h].nio < MaxWrites /\ Write(h, buffer)
    \/ \E h \in OpenWriters : Close(h)
    \/ \E r \in Regions : flash_addr < r.addr /\ Construct(r.addr, r.length)

SpecShared == Init /\ [][NextShared]_vars

(***************************************************************************)
(* SpecOpen: openFile for writing and for reading under every name of      *)
(* Names, and close.                                                       *)
(***************************************************************************)
NextOpen ==
    \/ handles = <<>> /\ Format
    \/ Release
    \/ \E path \in Names, mode \in {"w", "r"} :
          ~Formatting /\ Len(handles) < OpenHandles /\ OpenFile(path, mode)
    \/ \E h \in 1..Len(handles) : ~handles[h].closed /\ Close(h)

SpecOpen == Init /\ [][NextOpen]_vars

(***************************************************************************)
(* Properties                                                              *)
(***************************************************************************)
\* the entries list() returns in the current state (none if list() throws)
Listed == list(flash).ls

\* the listed entry of the directory slot a write handle was given
EntryOf(h) ==
    CHOOSE e \in {Listed[i] : i \in 1..Len(Listed)} : e.bof = handles[h].fileIndex.bof

IsListed(h) == \E i \in 1..Len(Listed) : Listed[i].bof = handles[h].fileIndex.bof

\* the last call was made on handle h
Called(op, h) == ret.op = op /\ ret.h = h

\* a read handle r got by openFile(name, "r") after the write handle w of
\* that name was closed, on which the last call was the first readBytes and
\* asked for as many bytes as w wrote
ReadBack(r, w) ==
    /\ handles[w].mode = "w" /\ handles[w].closed
    /\ handles[r].mode = "r" /\ handles[r].name = handles[w].name
    /\ Len(handles[w].data) > 0
    /\ Called("readBytes", r)
    /\ handles[r].nio = 1
    /\ ret.len = Len(handles[w].data)

\* C1: 16-byte-name variant, round trip.  Every write of bytes that fit in
\* the region [flash_addr, flash_addr + flash_length) is accepted, and after
\* close() the first readBytes(len(b)) on a handle opened for reading under
\* the same name returns exactly the bytes b that were written.
C1_RoundTrip16 ==
    variant = 16 =>
        /\ \A w \in 1..Len(handles) :
              (/\ Called("write", w)
               /\ handles[w].mode = "w"
               /\ ret.pos + ret.len <= flash_addr + flash_length)
              => ret.err = "none"
        /\ \A r \in 1..Len(handles), w \in 1..Len(handles) :
              ReadBack(r, w) => (~ret.undef /\ ret.bytes = handles[w].data)

\* the second half of C1 alone: what was accepted is read back
ReadBackExact16 ==
    variant = 16 =>
        \A r \in 1..Len(handles), w \in 1..Len(handles) :
            ReadBack(r, w) => (~ret.undef /\ ret.bytes = handles[w].data)

\* C2: 32-byte-name variant.  After writes totalling n > 0 bytes and close(),
\* list() reports the entry with length n, and the first readBytes(n) on a
\* handle opened for reading under that name returns the n written bytes.
C2_ClosedLength32 ==
    variant = 32 =>
        /\ \A w \in 1..Len(handles) :
              (/\ Called("close", w)
               /\ handles[w].mode = "w"
               /\ Len(handles[w].data) > 0)
              => (IsListed(w) /\ EntryOf(w).length = Len(handles[w].data))
        /\ \A r \in 1..Len(handles), w \in 1..Len(handles) :
              ReadBack(r, w) => (~ret.undef /\ ret.bytes = handles[w].data)

\* C3: list() never returns two entries whose names are equal under
\* case-insensitive comparison.
C3_NoDuplicateNames ==
    \A i \in 1..Len(Listed), j \in 1..Len(Listed) :
        i < j => toLowerCase(Listed[i].path) # toLowerCase(Listed[j].path)

\* ceil(size / PAGE_SIZE) for size >= 0
PagesOf(size) == (size + PAGE_SIZE - 1) \div PAGE_SIZE

\* the bytes written so far through the write handle of the slot at bof
WrittenAt(bof) ==
    LET hs == {h \in 1..Len(handles) :
                  handles[h].mode = "w" /\ handles[h].fileIndex.bof = bof}
    IN  IF hs = {} THEN 0 ELSE Len(handles[CHOOSE h \in hs : TRUE].data)

\* the size of a listed entry: its size field once closed, else what its
\* handle has written
SizeOf(e) == IF e.length >= 0 THEN e.length ELSE WrittenAt(e.bof)

\* the end of the page-rounded content span of a listed entry
SpanEnd(e) == e.addr + PagesOf(SizeOf(e)) * PAGE_SIZE

\* C4: 16-byte-name variant, one writer at a time and no use after close.
\* Every listed entry has a content address that is page-aligned relative
\* to the region base and lies past the directory page, and the
\* page-rounded content spans of two entries do not overlap.
C4_AlignedDisjoint16 ==
    variant = 16 =>
        /\ \A i \in 1..Len(Listed) :
              /\ (Listed[i].addr - flash_addr) % PAGE_SIZE = 0
              /\ Listed[i].addr >= flash_addr + PAGE_SIZE
        /\ \A i \in 1..Len(Listed), j \in 1..Len(Listed) :
              i < j => \/ SpanEnd(Listed[i]) <= Listed[j].addr
                       \/ SpanEnd(Listed[j]) <= Listed[i].addr

\* two closed files, the first of more than a page, the second of 3 bytes
C4_Witness ==
    /\ variant = 16
    /\ Len(Listed) = 2
    /\ Listed[1].length = PAGE_SIZE + 3
    /\ Listed[2].length = 3

\* C5: 16-byte-name variant.  The content address of a new file is that of
\* the previous entry plus ceil(previousSize / PAGE_SIZE) * PAGE_SIZE for
\* every previousSize >= 0, and flash_addr + PAGE_SIZE for the first file.
C5_NextAddressCeil16 ==
    variant = 16 =>
        /\ Len(Listed) >= 1 => Listed[1].addr = flash_addr + PAGE_SIZE
        /\ \A i \in 2..Len(Listed) :
              Listed[i - 1].length >= 0 =>
                  Listed[i].addr =
                      Listed[i - 1].addr + PagesOf(Listed[i - 1].length) * PAGE_SIZE

\* C6: 16-byte-name variant.  openFile(name, "w") that reaches the test fails
\* with RegionFull exactly when the computed content address is at or
\* beyond flash_addr + flash_length, and write fails with InsufficientSpace
\* exactly when cursor + len(data) exceeds flash_addr + flash_length.
C6_RegionEnd16 ==
    variant = 16 =>
        /\ (ret.op = "openFile" /\ ret.mode = "w" /\ ret.err = "RegionFull")
              => newAddr16(lastUsedAddr16(Listed)) >= flash_addr + flash_length
        /\ (ret.op = "openFile" /\ ret.mode = "w" /\ ret.err = "none")
              => handles[ret.h].fileIndex.addr < flash_addr + flash_length
        /\ \A w \in 1..Len(handles) :
              (Called("write", w) /\ handles[w].mode = "w")
              => (ret.err = "InsufficientSpace"
                     <=> ret.pos + ret.len > flash_addr + flash_length)

\* floor((PAGE_SIZE - H) / entryWidth)
Capacity == (PAGE_SIZE - Len(Header)) \div EntryWidth(NameLength)

\* C7: directory capacity.  On an initialized region with enough content
\* pages openFile(name, "w") succeeds while fewer than
\* floor((PAGE_SIZE - H) / entryWidth) files exist and fails with
\* DirectoryFull from then on, and no byte of a directory entry is written
\* outside the first page of the region (SpecCap writes no content, so every
\* programmed byte is one of the header or of an entry).
C7_DirectoryCapacity ==
    /\ (ret.op = "openFile" /\ ret.mode = "w" /\ check(flash))
          => ret.err = (IF ret.entries < Capacity THEN "none" ELSE "DirectoryFull")
    /\ Len(Listed) <= Capacity
    /\ \A p \in DOMAIN flash : p = flash_addr \div PAGE_SIZE

\* the creation after the last one that fits was refused
C7_Witness ==
    /\ ret.op = "openFile"
    /\ ret.err = "DirectoryFull"
    /\ ret.entries = Capacity
    /\ Len(Listed) = Capacity

\* C8 as stated: 16-byte-name variant, a maximum of 163 files.  The 163
\* first creations succeed and every later one fails with 'FS has maximum
\* files!'.
C8_Maximum163 ==
    (variant = 16 /\ ret.op = "openFile" /\ ret.mode = "w" /\ check(flash))
        => /\ ret.err = "none" <=> ret.entries < 163
           /\ ret.err = "DirectoryFull" <=> ret.entries >= 163

\* C8 amended: 16-byte-name variant, a maximum of 157 files.  The 157 first
\* creations succeed and every later one fails with 'FS has maximum files!'.
C8_Maximum157 ==
    (variant = 16 /\ ret.op = "openFile" /\ ret.mode = "w" /\ check(flash))
        => /\ ret.err = "none" <=> ret.entries < 157
           /\ ret.err = "DirectoryFull" <=> ret.entries >= 157

\* the 158th creation was refused with 157 files made and listed
C8_Witness ==
    /\ variant = 16
    /\ ret.op = "openFile"
    /\ ret.err = "DirectoryFull"
    /\ Len(handles) = 157
    /\ Len(Listed) = 157

\* write handles i and j of neighbouring directory slots, i not closed
OpenNeighbours(i, j) ==
    /\ i < j
    /\ handles[i].mode = "w" /\ handles[j].mode = "w"
    /\ ~handles[i].closed
    /\ handles[j].fileIndex.bof = handles[i].fileIndex.bof + EntryWidth(FILE_NAME_LENGTH)

\* C9: 16-byte-name variant.  A write handle made by openFile(b, "w") while
\* the write handle of the last directory entry is not closed gets the
\* content address of that entry; the two entries are listed in distinct
\* directory slots with the same content address.
C9_UnclosedCollide16 ==
    variant = 16 =>
        \A i \in 1..Len(handles), j \in 1..Len(handles) :
            OpenNeighbours(i, j) =>
                /\ handles[j].fileIndex.addr = handles[i].fileIndex.addr
                /\ IsListed(i) /\ IsListed(j)
                /\ EntryOf(i).bof # EntryOf(j).bof
                /\ EntryOf(i).addr = EntryOf(j).addr

\* two write handles open at the same time with the same content address
C9_Witness ==
    /\ variant = 16
    /\ \E i \in 1..Len(handles), j \in 1..Len(handles) :
          /\ OpenNeighbours(i, j)
          /\ ~handles[j].closed
          /\ handles[j].fileIndex.addr = handles[i].fileIndex.addr
          /\ handles[j].fileIndex.bof # handles[i].fileIndex.bof

\* C10: once close() has returned on a write handle, no later write, skip
\* or close on that handle changes a byte of storage.
C10_ClosedHandleInert ==
    [][\A h \in 1..Len(handles) :
          (/\ handles[h].mode = "w"
           /\ handles[h].closed
           /\ ret'.h = h
           /\ ret'.op \in {"write", "skip", "close"})
          => flash' = flash]_vars

(***************************************************************************)
(* Reading                                                                 *)
(***************************************************************************)
\* the handle that created the file a read handle was opened on
WriterOf(h) ==
    CHOOSE w \in 1..Len(handles) :
        handles[w].mode = "w" /\ handles[w].fileIndex.bof = handles[h].fileIndex.bof

\* the bytes written to that file, in order
FileData(h) == handles[WriterOf(h)].data

Min(a, b) == IF a < b THEN a ELSE b

\* the last call was op on a read handle h of the 16-byte-name variant
ReadCall16(op, h) ==
    variant = 16 /\ Called(op, h) /\ handles[h].mode = "r"

\* C11: in the 16-byte-name variant readBytes(n), n >= 1, on a read handle
\* at position pos of a file of size s returns exactly min(n, s - pos) bytes,
\* the bytes written at pos and after, and advances the cursor by that
\* count; when the count is not positive it returns no data and the cursor
\* stays, so a read at the end of the file returns no data.
C11_ReadBytesMin16 ==
    \A h \in 1..Len(handles) :
        ReadCall16("readBytes", h) /\ ret.len >= 1 =>
            LET s == handles[h].fileIndex.length
                pos == ret.pos - handles[h].fileIndex.addr
                count == Min(ret.len, s - pos)
            IN  /\ ret.err = "none"
                /\ IF count > 0
                   THEN /\ ~ret.undef
                        /\ ret.bytes = SubSeq(FileData(h), pos + 1, pos + count)
                        /\ Len(ret.bytes) = count
                        /\ handles[h].seekAddr = ret.pos + count
                   ELSE /\ ret.undef
                        /\ handles[h].seekAddr = ret.pos

\* a read of ten bytes two bytes into a file of three returned a single byte
C11_Witness ==
    \E h \in 1..Len(handles) :
        /\ ReadCall16("readBytes", h)
        /\ handles[h].fileIndex.length = 3
        /\ ret.len = 10
        /\ ret.pos - handles[h].fileIndex.addr = 2
        /\ ret.bytes = <<3>>

\* a read at the end of a file of three bytes, after a read that returned
\* data, returned no data
C11_AtEnd ==
    \E h \in 1..Len(handles) :
        /\ ReadCall16("readBytes", h)
        /\ handles[h].fileIndex.length = 3
        /\ handles[h].nio = 2
        /\ ret.pos - handles[h].fileIndex.addr = 3
        /\ ret.undef

\* what readBytes(length) returns at offset n of a file of size s with the
\* written bytes data: the bytes from n on, or no value at the end
Expected(data, s, n, length) ==
    IF Min(length, s - n) > 0
    THEN [undef |-> FALSE, bytes |-> SubSeq(data, n + 1, n + Min(length, s - n))]
    ELSE [undef |-> TRUE, bytes |-> <<>>]

\* the two rejections of seek ("Seek value should be positive number!" and
\* "Wrong position to seek!") are the one kind WrongSeekPosition
SeekKind(err) == IF err = "NegativeValue" THEN "WrongSeekPosition" ELSE err

\* C12: in the 16-byte-name variant seek(n) on a read handle of a file of
\* size s succeeds for 0 <= n <= s, returns n, and the next readBytes returns
\* the content from offset n; for n < 0 or n > s it fails with
\* WrongSeekPosition and the cursor stays where it was.
C12_SeekWithinFile16 ==
    \A h \in 1..Len(handles) :
        ReadCall16("seek", h) =>
            LET s == handles[h].fileIndex.length
                n == ret.len
            IN  IF 0 <= n /\ n <= s
                THEN /\ ret.err = "none"
                     /\ ret.val = n
                     /\ \A length \in ReadSizes :
                            LET r == readBytes16(handles[h], flash, length)
                                e == Expected(FileData(h), s, n, length)
                            IN  r.err = "none" /\ r.undef = e.undef /\ r.bytes = e.bytes
                ELSE /\ SeekKind(ret.err) = "WrongSeekPosition"
                     /\ handles[h].seekAddr = ret.pos

\* seek(2) was accepted on a file of three bytes after the cursor had moved,
\* and the next read starts at the third byte
C12_Witness ==
    \E h \in 1..Len(handles) :
        /\ ReadCall16("seek", h)
        /\ handles[h].fileIndex.length = 3
        /\ ret.len = 2
        /\ ret.pos # handles[h].fileIndex.addr + 2
        /\ ret.err = "none"
        /\ readBytes16(handles[h], flash, 10).bytes = <<3>>

\* seek(4) was refused on a file of three bytes with the cursor inside it
C12_Refused ==
    \E h \in 1..Len(handles) :
        /\ ReadCall16("seek", h)
        /\ handles[h].fileIndex.length = 3
        /\ ret.len = 4
        /\ ret.err = "WrongSeekPosition"
        /\ position(handles[h]) = 1

(***************************************************************************)
(* Skipping and the mode of a handle                                       *)
(***************************************************************************)
\* C13: in the 16-byte-name variant skip(n), n > 0, on a write handle whose
\* cursor plus n is not past the end of the region succeeds, advances the
\* cursor by n and returns the new position relative to the content start
\* (the size a following close() records).
C13_SkipAdvances16 ==
    \A h \in 1..Len(handles) :
        /\ variant = 16
        /\ Called("skip", h)
        /\ handles[h].mode = "w"
        /\ ret.len > 0
        /\ ret.pos + ret.len <= flash_addr + flash_length
        => /\ ret.err = "none"
           /\ handles[h].seekAddr = ret.pos + ret.len
           /\ ret.val = lenFile(handles[h])

\* the call made by a step is one of the other mode than handle h has
WrongMode(h) ==
    /\ h \in 1..Len(handles)
    /\ ret'.h = h
    /\ \/ handles[h].mode = "w" /\ ret'.op \in {"read", "readBytes", "seek"}
       \/ handles[h].mode = "r" /\ ret'.op \in {"write", "skip"}

\* such a call fails with ModeMismatch and moves neither cursor nor storage
Refused(h) ==
    /\ ret'.err = "ModeMismatch"
    /\ handles'[h].seekAddr = handles[h].seekAddr
    /\ flash' = flash

\* C14: every call of read(n), readBytes(n) or seek(n) on a write handle and
\* every call of write(data) or skip(n) on a read handle fails with
\* ModeMismatch and changes neither the cursor of the handle nor any byte of
\* storage.
C14_ModeFixed ==
    [][\A h \in 1..Len(handles) : WrongMode(h) => Refused(h)]_vars

\* the same for every call but skip(0), which a read handle answers with
\* its position
ModeFixedButSkipZero ==
    [][\A h \in 1..Len(handles) :
          WrongMode(h) /\ ~(ret'.op = "skip" /\ ret'.len = 0) => Refused(h)]_vars

(***************************************************************************)
(* Opening by name                                                         *)
(***************************************************************************)
\* list() of storage fl has an entry whose name equals path without regard
\* to case
ListsName(fl, path) ==
    \E i \in 1..Len(list(fl).ls) : toLowerCase(list(fl).ls[i].path) = toLowerCase(path)

\* a step that calls openFile on an initialized region fails with FileExists
\* exactly for "w" and a listed name, with FileNotFound exactly for "r" and
\* a name that is not listed
OpenByListedName ==
    ret'.op = "openFile" /\ check(flash) /\ ret' # ret =>
        /\ ret'.mode = "w" =>
              (ret'.err = "FileExists" <=> ListsName(flash, ret'.name))
        /\ ret'.mode = "r" =>
              (ret'.err = "FileNotFound" <=> ~ListsName(flash, ret'.name))

\* every file created by openFile(name, "w") can be opened for reading under
\* the name it was created with
Reopens ==
    \A h \in 1..Len(handles) :
        handles[h].mode = "w" => openFile(flash, handles[h].name, "r").err = "none"

\* C15: on an initialized region openFile(name, "w") fails with FileExists
\* if and only if list() has an entry of that name (case-insensitively), and
\* openFile(name, "r") fails with FileNotFound if and only if list() has no
\* such entry; every file created by a successful openFile(name, "w") can
\* afterwards be opened with openFile(name, "r") under the same name.
C15_OpenByName ==
    [][OpenByListedName]_vars /\ []Reopens

\* the two equivalences alone
OpenMatchesList == [][OpenByListedName]_vars

(***************************************************************************)
(* format and the header                                                   *)
(***************************************************************************)
\* C16: from every reachable state, whatever files were created, written,
\* closed or left unclosed, format() returns true and afterwards check() is
\* true and list() returns the empty sequence.
C16_FormatEmpties ==
    ret.op = "format" =>
        /\ ret.ok
        /\ check(flash)
        /\ list(flash) = [err |-> "none", ls |-> <<>>]

\* format() has run on a directory that listed a file
C16_Witness ==
    ret.op = "format" /\ ret.entries >= 1 /\ list(flash).ls = <<>>

\* the bytes at the base of the region are not the magic header
HeaderAbsent ==
    \E i \in 1..Len(Header) : byteAt(flash, flash_addr + i - 1) # Header[i]

\* the modes openFile is called with: the two it knows and one it does not
Modes == {"w", "r", "a"}

\* C17: while the magic header is absent from the base of the region,
\* check() returns false, and list() and openFile(name, mode), for every
\* mode, fail with NotInitialized without writing a byte to storage.
C17_NotInitialized ==
    HeaderAbsent =>
        /\ ~check(flash)
        /\ list(flash).err = "NotInitialized"
        /\ \A path \in Names \cup {LongName}, mode \in Modes :
              LET r == openFile(flash, path, mode)
              IN  r.err = "NotInitialized" /\ r.fl = flash
        /\ ret.op = "openFile" => ret.err = "NotInitialized" /\ ret.h = 0

\* openFile was called on erased flash and failed with NotInitialized
C17_Witness ==
    /\ HeaderAbsent
    /\ flash = <<>>
    /\ ret.op = "openFile"
    /\ ret.mode = "w"
    /\ ret.err = "NotInitialized"

(***************************************************************************)
(* pipe                                                                    *)
(***************************************************************************)
\* timer t pipes a read handle into a destination whose write never raises
SoundPipe(t) ==
    /\ t \in 1..Len(timers)
    /\ timers[t].dest = "sound"
    /\ handles[timers[t].h].mode = "r"

Stopped(t) == t \in 1..Len(timers) /\ ~timers[t].active

\* how many of the events are calls of ev
CountOf(events, ev) == Cardinality({i \in 1..Len(events) : events[i].ev = ev})

\* end() and complete() were called once each where the options ask for
\* them, after the timer stopped and not before, and no write follows them
CompletesOnce(tm) ==
    /\ CountOf(tm.events, "end") =
          (IF ~tm.active /\ tm.options.given /\ tm.options.end THEN 1 ELSE 0)
    /\ CountOf(tm.events, "complete") =
          (IF ~tm.active /\ tm.options.given /\ tm.options.complete THEN 1 ELSE 0)
    /\ \A i, j \in 1..Len(tm.events) :
          i < j /\ tm.events[j].ev = "write" => tm.events[i].ev = "write"

\* C18: with fair scheduling of the timer steps, pipe(destination, options)
\* on a read handle, with a destination whose write never fails, eventually
\* stops its timer; destination.end() is called exactly once if and only if
\* options.end is true, options.complete() exactly once, both only after
\* the last destination.write and once the timer has stopped, and no
\* destination.write happens after them.
C18_PipeTerminates ==
    /\ \A t \in 1..MaxPipes : SoundPipe(t) ~> Stopped(t)
    /\ [](\A t \in 1..Len(timers) : SoundPipe(t) => CompletesOnce(timers[t]))

\* a pipe with {chunkSize: 2, end: true, complete: f} has stopped after two
\* writes, end() and complete()
C18_Witness ==
    \E t \in 1..Len(timers) :
        /\ SoundPipe(t)
        /\ Stopped(t)
        /\ Len(timers[t].events) = 4
        /\ timers[t].events[2].ev = "write"
        /\ timers[t].events[3].ev = "end"
        /\ timers[t].events[4].ev = "complete"

\* the chunks timer tm passed to destination.write, in order
Chunks(tm) ==
    LET idx == {i \in 1..Len(tm.events) : tm.events[i].ev = "write"}
        nth(k) == CHOOSE i \in idx : Cardinality({j \in idx : j <= i}) = k
    IN  [k \in 1..Cardinality(idx) |-> tm.events[nth(k)].data]

RECURSIVE Concat(_)
Concat(ss) == IF ss = <<>> THEN <<>> ELSE Head(ss) \o Concat(Tail(ss))

\* the chunk size a pipe was asked for: options.chunkSize, 32 without it
AskedChunk(tm) ==
    IF tm.options.given /\ tm.options.chunkSize > 0 THEN tm.options.chunkSize ELSE 32

\* only timer t has used its handle since pipe() was called
Untouched(t) ==
    /\ handles[timers[t].h].nio = timers[t].nio
    /\ \A u \in 1..Len(timers) : u # t => timers[u].h # timers[t].h

\* the offset a file of size s ends at for a cursor at offset start
EndFrom(start, s) == IF s > start THEN s ELSE start

\* the chunks of timer t are the content from the cursor at the pipe call
\* up to the cursor now, up to the size the directory records for the file
\* once the timer stopped
Forwarded(t) ==
    LET tm == timers[t]
        hd == handles[tm.h]
        sent == Concat(Chunks(tm))
    IN  /\ \A k \in 1..Len(Chunks(tm)) :
              Len(Chunks(tm)[k]) >= 1 /\ Len(Chunks(tm)[k]) <= AskedChunk(tm)
        /\ Untouched(t) =>
              /\ sent = SubSeq(FileData(tm.h), tm.start + 1, tm.start + Len(sent))
              /\ position(hd) = tm.start + Len(sent)
              /\ ~tm.active => position(hd) = EndFrom(tm.start, hd.fileIndex.length)

\* the chunks of timer t are the bytes written to the file from the cursor
\* at the pipe call up to the cursor now, all of them up to the last byte
\* written once the timer stopped
ForwardedWhole(t) ==
    LET tm == timers[t]
        hd == handles[tm.h]
        sent == Concat(Chunks(tm))
    IN  /\ \A k \in 1..Len(Chunks(tm)) :
              Len(Chunks(tm)[k]) >= 1 /\ Len(Chunks(tm)[k]) <= AskedChunk(tm)
        /\ Untouched(t) =>
              /\ sent = SubSeq(FileData(tm.h), tm.start + 1, tm.start + Len(sent))
              /\ position(hd) = tm.start + Len(sent)
              /\ ~tm.active =>
                    tm.start + Len(sent) = EndFrom(tm.start, Len(FileData(tm.h)))

\* C19: pipe forwards at most one chunk per scheduling step, every chunk has
\* between 1 and chunkSize bytes (32 when no chunkSize is given), and while
\* no other operation touches the handle the chunks passed to
\* destination.write, concatenated in order, are the content of the file from
\* the cursor at the pipe call on, the whole of it up to the end of the file
\* once the pipe has stopped, with no byte skipped or repeated.
C19_ChunksAreContent ==
    /\ [][\A t \in 1..Len(timers) :
             Len(Chunks(timers'[t])) <= Len(Chunks(timers[t])) + 1]_vars
    /\ [](\A t \in 1..Len(timers) : ForwardedWhole(t))

\* what holds instead, under SpecPipe (one file): the chunks are the content
\* up to the size the directory records, which in the 32-byte-name variant
\* is not the number of bytes written
ChunksAreRecordedContent ==
    /\ [][\A t \in 1..Len(timers) :
             Len(Chunks(timers'[t])) <= Len(Chunks(timers[t])) + 1]_vars
    /\ [](\A t \in 1..Len(timers) : Forwarded(t))

\* and, under SpecTwoPipes, in the 16-byte-name variant the chunks are the
\* bytes written
ChunksAreContent16 ==
    \A t \in 1..Len(timers) : variant = 16 => ForwardedWhole(t)

\* in the 32-byte-name variant a pipe on a closed file of three bytes has
\* stopped without a chunk
NothingForwarded32 ==
    \E t \in 1..Len(timers) :
        /\ variant = 32
        /\ Untouched(t)
        /\ ~timers[t].active
        /\ timers[t].start = 0
        /\ FileData(timers[t].h) = <<1, 2, 3>>
        /\ handles[WriterOf(timers[t].h)].closed
        /\ Chunks(timers[t]) = <<>>

\* a pipe without options has forwarded a file of 40 bytes in chunks of 32
\* and 8 bytes and stopped, nothing else having touched the handle
C19_Witness ==
    \E t \in 1..Len(timers) :
        /\ Untouched(t)
        /\ ~timers[t].active
        /\ ~timers[t].options.given
        /\ timers[t].start = 0
        /\ Len(Chunks(timers[t])) = 2
        /\ Len(Chunks(timers[t])[1]) = 32
        /\ Len(Chunks(timers[t])[2]) = 8
        /\ Concat(Chunks(timers[t])) = FileData(timers[t].h)

\* a pipe with chunkSize 2 started one byte into a file of three bytes
C19_FromCursor ==
    \E t \in 1..Len(timers) :
        /\ Untouched(t)
        /\ ~timers[t].active
        /\ timers[t].start = 1
        /\ Concat(Chunks(timers[t])) = <<2, 3>>

\* destination.write has raised an error in a step of timer t
Raised(t) == \E i \in 1..Len(timers[t].events) : timers[t].events[i].raised

\* C20: once destination.write has raised an error in a chunk step the pipe
\* is halted: no later scheduling step of it reads a further chunk from the
\* handle or calls destination.write, destination.end or options.complete.
C20_HaltsOnError ==
    [][\A t \in 1..Len(timers) :
          Raised(t) /\ ret'.op = "pipeRead" /\ ret'.val = t /\ ret' # ret =>
              /\ timers'[t].events = timers[t].events
              /\ handles'[timers[t].h].seekAddr = handles[timers[t].h].seekAddr]_vars

(***************************************************************************)
(* Entries of handles that were not closed                                 *)
(***************************************************************************)
\* handle h of the 16-byte-name variant was made by openFile(name, "w") and
\* close() has not been called on it
Unclosed16(h) ==
    variant = 16 /\ handles[h].mode = "w" /\ ~handles[h].closed

\* C21 as stated: in the 16-byte-name variant, after format(), list()
\* succeeds and lists the entry of every write handle that has not been
\* closed with size 0.
C21_UnclosedListsZero16 ==
    \A h \in 1..Len(handles) :
        Unclosed16(h) =>
            list(flash).err = "none" /\ IsListed(h) /\ EntryOf(h).length = 0

\* C21 as the code has it: list() succeeds and lists the entry of every
\* write handle that has not been closed with size -1, the erased size
\* field read as a signed number.
C21_UnclosedListsErased16 ==
    \A h \in 1..Len(handles) :
        Unclosed16(h) =>
            list(flash).err = "none" /\ IsListed(h) /\ EntryOf(h).length = -1

\* two entries are listed, the first closed and the second not
C21_Witness ==
    /\ Len(handles) = 2
    /\ handles[1].closed
    /\ Unclosed16(2)
    /\ Len(Listed) = 2
    /\ Listed[1].length = 0
    /\ Listed[2].length = -1

(***************************************************************************)
(* A creation that is cut short                                            *)
(***************************************************************************)
\* C23: in the 16-byte-name variant, if execution stops between two of the
\* four device writes of openFile(name, "w") (BOF, name, content address,
\* EOF), a later list() succeeds and returns exactly the entries that were
\* fully written before that call.
C23_PartialEntryIgnored16 ==
    [][ret'.op = "crash" /\ ret' # ret =>
          list(flash') = [err |-> "none", ls |-> list(flash).ls]]_vars

\* what the code does instead: after such a stop list() throws for the
\* missing EOF mark, and so does every openFile, until format()
PartialEntryCorrupts16 ==
    ret.op = "crash" =>
        /\ list(flash).err = "CorruptEntry"
        /\ \A path \in SeqNames, mode \in {"w", "r"} :
              openFile(flash, path, mode).err = "CorruptEntry"

(***************************************************************************)
(* Failed calls                                                            *)
(***************************************************************************)
\* the enumerated error kinds
ErrorKinds ==
    {"NotInitialized", "FileExists", "FileNotFound", "InvalidMode", "NameTooLong",
     "DirectoryFull", "RegionFull", "InsufficientSpace", "CorruptEntry",
     "WrongSeekPosition", "ModeMismatch"}

\* storage, the handles held and their cursors are the same after a step
FrameKept ==
    /\ flash' = flash
    /\ Len(handles') = Len(handles)
    /\ \A h \in 1..Len(handles) : handles'[h].seekAddr = handles[h].seekAddr

\* C22: whenever a call fails with one of the enumerated errors, every byte
\* of storage and the cursor of every open handle are the same as before
\* the call.
C22_ErrorsChangeNothing ==
    [][SeekKind(ret'.err) \in ErrorKinds /\ ret' # ret => FrameKept]_vars

\* a write was refused for lack of space on a handle that had written
\* before, while a second handle is held
C22_Witness ==
    /\ ret.op = "write"
    /\ ret.err = "InsufficientSpace"
    /\ Len(handles) = 2
    /\ handles[ret.h].nio >= 1

(***************************************************************************)
(* The content area of the 32-byte-name variant                            *)
(***************************************************************************)
\* offsets lo .. hi - 1 of the region lie in its content area: past the
\* directory page and before the end of the region
InContentArea(lo, hi) == PAGE_SIZE <= lo /\ lo <= hi /\ hi <= flash_length

\* C24: in the 32-byte-name variant, after format(), every content address
\* openFile(name, "w") assigns and every device address a write of a handle
\* programs lies in the content area [baseAddress + pageSize, baseAddress +
\* lengthBytes): none in the header or the directory page, none outside
\* the region.
C24_ContentArea32 ==
    \A h \in 1..Len(handles) :
        variant = 32 /\ handles[h].mode = "w" =>
            /\ InContentArea(handles[h].fileIndex.addr, handles[h].fileIndex.addr + 1)
            /\ Called("write", h) /\ ret.err = "none" =>
                  InContentArea(handles[h].fileIndex.addr + ret.pos,
                                handles[h].fileIndex.addr + ret.pos + ret.len)

(***************************************************************************)
(* Two FlashFS objects                                                     *)
(***************************************************************************)
\* the region the FlashFS objects and their handles read and write
RegionInUse == <<flash_addr, flash_length>>

\* C25: constructing a second FlashFS object with another base address or
\* length does not change the region an earlier FlashFS object and its open
\* handles read and write, and the earlier object, which has made the
\* handles, still finds its file system there.
C25_ObjectsKeepRegion ==
    /\ [][ret'.op = "construct" /\ handles # <<>> => RegionInUse' = RegionInUse]_vars
    /\ [](ret.op = "construct" /\ handles # <<>> => check(flash))

\* what the code does instead: every construction makes its arguments the
\* region of all objects
ConstructRebinds ==
    ret.op = "construct" => flash_addr = ret.pos /\ flash_length = ret.len

(***************************************************************************)
(* Two pipes at the same time                                              *)
(***************************************************************************)
\* timers t and u pipe two different read handles into sound destinations
TwoAtOnce(t, u) ==
    /\ t # u
    /\ SoundPipe(t) /\ SoundPipe(u)
    /\ timers[t].h # timers[u].h

\* what the destination of timer t got is the content of the file of its
\* handle from the cursor at the pipe call up to the cursor now, which is
\* the end of the file once the timer has stopped
OwnContent(t) ==
    LET tm == timers[t]
        hd == handles[tm.h]
        sent == Concat(Chunks(tm))
    IN  /\ sent = SubSeq(FileData(tm.h), tm.start + 1, tm.start + Len(sent))
        /\ position(hd) = tm.start + Len(sent)
        /\ ~tm.active => position(hd) = EndFrom(tm.start, hd.fileIndex.length)

\* a step of the interval of one timer leaves every other timer, and the
\* cursor of every other handle, as they were
StepsApart ==
    ret'.op = "pipeRead" /\ timers' # timers =>
        /\ \A u \in 1..Len(timers) : u # ret'.val => timers'[u] = timers[u]
        /\ \A h \in 1..Len(handles) : h # ret'.h => handles'[h] = handles[h]

\* C26: when pipe runs at the same time on two different read handles, of
\* the same file or of different files, then however the steps of the two
\* timers interleave each destination gets the content of its own handle's
\* file from that handle's cursor to the end of the file, in order, a step
\* of one pipe moves neither the cursor nor the timer of the other, and
\* with fair scheduling each pipe stops and has then completed exactly once.
C26_TwoPipesApart ==
    /\ [](\A t, u \in 1..Len(timers) :
             TwoAtOnce(t, u) => OwnContent(t) /\ CompletesOnce(timers[t]))
    /\ [][StepsApart]_vars
    /\ \A t, u \in 1..TwoPipes : TwoAtOnce(t, u) ~> Stopped(t) /\ Stopped(u)

\* what holds instead: the steps of two pipes never touch each other's timer
\* or cursor and with fair scheduling both pipes stop, in both variants; in
\* the 16-byte-name variant each destination gets the content of its own
\* handle's file and each pipe completes once
TwoPipesShareNoCursor ==
    /\ [](\A t, u \in 1..Len(timers) :
             variant = 16 /\ TwoAtOnce(t, u) => OwnContent(t) /\ CompletesOnce(timers[t]))
    /\ [](\A t, u \in 1..Len(timers) : TwoAtOnce(t, u) => CompletesOnce(timers[t]))
    /\ [][StepsApart]_vars
    /\ \A t, u \in 1..TwoPipes : TwoAtOnce(t, u) ~> Stopped(t) /\ Stopped(u)

\* in the 32-byte-name variant a pipe on the second file forwards bytes of
\* the directory page
ForeignBytes32 ==
    \E t \in 1..Len(timers) :
        /\ variant = 32
        /\ SoundPipe(t)
        /\ Stopped(t)
        /\ FileData(timers[t].h) = <<9, 8, 7, 6, 5>>
        /\ Concat(Chunks(timers[t])) = <<1, 0>>

\* two pipes with chunkSize 2 on two read handles of the file holding
\* [9, 8, 7, 6, 5], one started at the beginning and one a byte later, have
\* stopped after steps that alternated, each with its own bytes
C26_Witness ==
    \E t, u \in 1..Len(timers) :
        /\ TwoAtOnce(t, u)
        /\ Stopped(t) /\ Stopped(u)
        /\ timers[t].start = 0 /\ timers[u].start = 1
        /\ Concat(Chunks(timers[t])) = <<9, 8, 7, 6, 5>>
        /\ Concat(Chunks(timers[u])) = <<8, 7, 6, 5>>
        /\ Len(Chunks(timers[t])) = 3 /\ Len(Chunks(timers[u])) = 2
        /\ CountOf(timers[t].events, "complete") = 1
        /\ CountOf(timers[u].events, "complete") = 1
        /\ ret.op = "pipeRead" /\ ret.val = t

\* two pipes on read handles of different files have stopped, each with the
\* bytes of its own file
C26_TwoFiles ==
    \E t, u \in 1..Len(timers) :
        /\ TwoAtOnce(t, u)
        /\ Stopped(t) /\ Stopped(u)
        /\ Concat(Chunks(timers[t])) = <<1, 2, 3>>
        /\ Concat(Chunks(timers[u])) = <<9, 8, 7, 6, 5>>

====
